---------------------------- MODULE Spec2Model ----------------------------
(***************************************************************************)
(* A model of src/src/main.rs: the line-oriented statement parser          *)
(* (parse_program), the shunting-yard expression parser (parse_expression, *)
(* apply_op, precedence), the evaluator (evaluate_expr) and the execution  *)
(* loop of main.                                                           *)
(*                                                                         *)
(* Text is a sequence of one-character strings.  A token is a text.  An    *)
(* Expr is a record with a kind field.  A panic is an err field that is    *)
(* not the empty string.                                                   *)
(***************************************************************************)
EXTENDS Integers, Sequences, FiniteSets, TLC

(***************************************************************************)
(* Bounds of the model.                                                    *)
(***************************************************************************)
\* longest expression text enumerated exhaustively
MaxLen == 5
\* most lines of an enumerated program
MaxLines == 3

(***************************************************************************)
(* Character classes of the regex crate, restricted to ASCII.              *)
(***************************************************************************)
DigitSeq == <<"0", "1", "2", "3", "4", "5", "6", "7", "8", "9">>

Digits == {DigitSeq[i] : i \in 1..10}

Letters == {"a", "b", "c", "d", "e", "f", "g", "h", "i", "j", "k", "l", "m",
            "n", "o", "p", "q", "r", "s", "t", "u", "v", "w", "x", "y", "z"}

\* \w
WordChars == Digits \cup Letters \cup {"_"}

\* \s
Whitespace == {" ", "\t"}

\* the single-character alternatives of the token regex
OpChars == {"+", "-", "*", "/", "(", ")"}

\* [\w\s\+\-\*/\(\)], the second alternative of re_stmt's group 2
StmtClass == WordChars \cup Whitespace \cup OpChars

DigitVal(c) == (CHOOSE i \in 1..10 : DigitSeq[i] = c) - 1

\* index just past the longest run of characters of class C that starts at i
RECURSIVE RunEnd(_, _, _)
RunEnd(s, i, C) ==
    IF i <= Len(s) /\ s[i] \in C THEN RunEnd(s, i + 1, C) ELSE i

(***************************************************************************)
(* str::parse::<i64> on a text: an optional sign, then one or more digits, *)
(* the value within the signed 64-bit range.                               *)
(***************************************************************************)
\* the decimal digits of i64::MAX, 9223372036854775807
I64MaxDigits == <<"9", "2", "2", "3", "3", "7", "2", "0", "3", "6",
                  "8", "5", "4", "7", "7", "5", "8", "0", "7">>

\* the decimal digits of the magnitude of i64::MIN
I64MinDigits == <<"9", "2", "2", "3", "3", "7", "2", "0", "3", "6",
                  "8", "5", "4", "7", "7", "5", "8", "0", "8">>

RECURSIVE StripZeros(_)
StripZeros(d) ==
    IF Len(d) > 1 /\ d[1] = "0" THEN StripZeros(Tail(d)) ELSE d

\* a <= b for digit texts of equal length
RECURSIVE DigitsLE(_, _)
DigitsLE(a, b) ==
    IF a = <<>> THEN TRUE
    ELSE IF DigitVal(a[1]) < DigitVal(b[1]) THEN TRUE
    ELSE IF DigitVal(a[1]) > DigitVal(b[1]) THEN FALSE
    ELSE DigitsLE(Tail(a), Tail(b))

\* the magnitude written by digit text d is at most the one written by lim
MagnitudeFits(d, lim) ==
    LET s == StripZeros(d)
    IN  Len(s) < Len(lim) \/ (Len(s) = Len(lim) /\ DigitsLE(s, lim))

RECURSIVE DecVal(_)
DecVal(d) ==
    IF d = <<>> THEN 0
    ELSE 10 * DecVal(SubSeq(d, 1, Len(d) - 1)) + DigitVal(d[Len(d)])

ParseI64(t) ==
    LET signed == t # <<>> /\ t[1] \in {"+", "-"}
        neg    == t # <<>> /\ t[1] = "-"
        d      == IF signed THEN Tail(t) ELSE t
    IN  IF d # <<>> /\ (\A i \in 1..Len(d) : d[i] \in Digits)
           /\ MagnitudeFits(d, IF neg THEN I64MinDigits ELSE I64MaxDigits)
        THEN [ok |-> TRUE, val |-> IF neg THEN 0 - DecVal(d) ELSE DecVal(d)]
        ELSE [ok |-> FALSE, val |-> 0]

\* str::trim
RECURSIVE TrimStart(_)
TrimStart(t) ==
    IF t # <<>> /\ t[1] \in Whitespace THEN TrimStart(Tail(t)) ELSE t

RECURSIVE TrimEnd(_)
TrimEnd(t) ==
    IF t # <<>> /\ t[Len(t)] \in Whitespace
    THEN TrimEnd(SubSeq(t, 1, Len(t) - 1)) ELSE t

Trim(t) == TrimEnd(TrimStart(t))

(***************************************************************************)
(* enum Expr.                                                              *)
(***************************************************************************)
NoExpr == [kind |-> "None"]

Number(n) == [kind |-> "Number", n |-> n]

Variable(name) == [kind |-> "Variable", name |-> name]

Binary(k, l, r) == [kind |-> k, left |-> l, right |-> r]

BinaryKinds == {"Add", "Sub", "Mul", "Div"}

(***************************************************************************)
(* The tokenizer of parse_expression: every match of                       *)
(* (\d+|\+|\-|\*|\/|\(|\)) from left to right; any other character is      *)
(* skipped.                                                                *)
(***************************************************************************)
RECURSIVE TokensFrom(_, _)
TokensFrom(s, i) ==
    IF i > Len(s) THEN <<>>
    ELSE IF s[i] \in Digits
         THEN LET j == RunEnd(s, i, Digits)
              IN  <<SubSeq(s, i, j - 1)>> \o TokensFrom(s, j)
    ELSE IF s[i] \in OpChars
         THEN <<(<<s[i]>>)>> \o TokensFrom(s, i + 1)
    ELSE TokensFrom(s, i + 1)

Tokenize(s) == TokensFrom(s, 1)

(***************************************************************************)
(* precedence and apply_op.                                                *)
(***************************************************************************)
precedence(op) ==
    CASE op \in {<<"-">>, <<"+">>} -> 1
      [] op \in {<<"/">>, <<"*">>} -> 2
      [] OTHER -> 0

\* the parser's two stacks; err is the panic message, "" while none
ParserState(out, ops, err) == [output_queue |-> out, operator_stack |-> ops, err |-> err]

Panicked(st, msg) == [st EXCEPT !.err = msg]

Last(s) == s[Len(s)]

Pop(s) == SubSeq(s, 1, Len(s) - 1)

\* apply_op(op, &mut output_queue), on the state whose operator was popped
apply_op(op, st) ==
    IF Len(st.output_queue) < 2 THEN Panicked(st, "Invalid expression")
    ELSE LET right == st.output_queue[Len(st.output_queue)]
             left  == st.output_queue[Len(st.output_queue) - 1]
             rest  == SubSeq(st.output_queue, 1, Len(st.output_queue) - 2)
         IN  CASE op = <<"+">> -> [st EXCEPT !.output_queue = Append(rest, Binary("Add", left, right))]
               [] op = <<"-">> -> [st EXCEPT !.output_queue = Append(rest, Binary("Sub", left, right))]
               [] op = <<"*">> -> [st EXCEPT !.output_queue = Append(rest, Binary("Mul", left, right))]
               [] op = <<"/">> -> [st EXCEPT !.output_queue = Append(rest, Binary("Div", left, right))]
               [] OTHER -> Panicked([st EXCEPT !.output_queue = rest], "Unknown operator")

(***************************************************************************)
(* parse_expression.                                                       *)
(***************************************************************************)
\* the operator loop with > in place of >=: equal precedence is not reduced
RECURSIVE ReduceForOperator_Strict(_, _)
ReduceForOperator_Strict(st, token) ==
    IF st.err = "" /\ st.operator_stack # <<>> /\ Last(st.operator_stack) # <<"(">>
       /\ precedence(Last(st.operator_stack)) > precedence(token)
    THEN ReduceForOperator_Strict(apply_op(Last(st.operator_stack), [st EXCEPT !.operator_stack = Pop(st.operator_stack)]), token)
    ELSE st

\* the while loop of the operator arm
RECURSIVE ReduceForOperator(_, _)
ReduceForOperator(st, token) ==
    IF st.err = "" /\ st.operator_stack # <<>> /\ Last(st.operator_stack) # <<"(">>
       /\ precedence(Last(st.operator_stack)) >= precedence(token)
    THEN ReduceForOperator(apply_op(Last(st.operator_stack), [st EXCEPT !.operator_stack = Pop(st.operator_stack)]), token)
    ELSE st

\* the operator arm: "+" | "-" | "*" | "/"
OnOperator(st, token) ==
    LET r == ReduceForOperator(st, token)
    IN  IF r.err # "" THEN r ELSE [r EXCEPT !.operator_stack = Append(r.operator_stack, token)]

\* the "(" arm
OnOpenParen(st, token) == [st EXCEPT !.operator_stack = Append(st.operator_stack, token)]

\* the while loop of the ")" arm
RECURSIVE ReduceToParen(_)
ReduceToParen(st) ==
    IF st.err = "" /\ st.operator_stack # <<>> /\ Last(st.operator_stack) # <<"(">>
    THEN ReduceToParen(apply_op(Last(st.operator_stack), [st EXCEPT !.operator_stack = Pop(st.operator_stack)]))
    ELSE st

\* the ")" arm without its else branch: a ")" with no "(" is let through
OnCloseParen_Lenient(st) ==
    LET r == ReduceToParen(st)
    IN  IF r.err # "" THEN r
        ELSE IF r.operator_stack # <<>> /\ Last(r.operator_stack) = <<"(">>
             THEN [r EXCEPT !.operator_stack = Pop(r.operator_stack)]
             ELSE r

\* the ")" arm
OnCloseParen(st) ==
    LET r == ReduceToParen(st)
    IN  IF r.err # "" THEN r
        ELSE IF r.operator_stack # <<>> /\ Last(r.operator_stack) = <<"(">>
             THEN [r EXCEPT !.operator_stack = Pop(r.operator_stack)]
             ELSE Panicked(r, "Mismatched parentheses")

\* the three operand arms: num, trimmed num, var
OnOperand(st, token) ==
    IF ParseI64(token).ok
    THEN [st EXCEPT !.output_queue = Append(st.output_queue, Number(ParseI64(token).val))]
    ELSE IF ParseI64(Trim(token)).ok
    THEN [st EXCEPT !.output_queue = Append(st.output_queue, Number(ParseI64(Trim(token)).val))]
    ELSE [st EXCEPT !.output_queue = Append(st.output_queue, Variable(token))]

\* one iteration of `for token in tokens`
OnToken(st, token) ==
    IF st.err # "" THEN st
    ELSE IF token \in {<<"+">>, <<"-">>, <<"*">>, <<"/">>} THEN OnOperator(st, token)
    ELSE IF token = <<"(">> THEN OnOpenParen(st, token)
    ELSE IF token = <<")">> THEN OnCloseParen(st)
    ELSE OnOperand(st, token)

RECURSIVE ScanTokens(_, _, _)
ScanTokens(st, tokens, i) ==
    IF i > Len(tokens) THEN st
    ELSE ScanTokens(OnToken(st, tokens[i]), tokens, i + 1)

\* the loop after the scan: `while !operator_stack.is_empty()`
RECURSIVE Drain(_)
Drain(st) ==
    IF st.err # "" \/ st.operator_stack = <<>> THEN st
    ELSE IF Last(st.operator_stack) = <<"(">>
         THEN Panicked([st EXCEPT !.operator_stack = Pop(st.operator_stack)], "Mismatched parentheses")
         ELSE Drain(apply_op(Last(st.operator_stack), [st EXCEPT !.operator_stack = Pop(st.operator_stack)]))

\* the final check and the return value
FinishParse(st) ==
    IF st.err # "" THEN [ok |-> FALSE, err |-> st.err, tree |-> NoExpr]
    ELSE IF Len(st.output_queue) # 1
         THEN [ok |-> FALSE, err |-> "Invalid expression", tree |-> NoExpr]
         ELSE [ok |-> TRUE, err |-> "", tree |-> st.output_queue[1]]

ParseTokens(tokens) ==
    FinishParse(Drain(ScanTokens(ParserState(<<>>, <<>>, ""), tokens, 1)))

parse_expression(input) == ParseTokens(Tokenize(input))

(***************************************************************************)
(* evaluate_expr.  Rust evaluates the left operand before the right one    *)
(* and panics on the first failure; `/` on i64 truncates toward zero and   *)
(* panics on a zero divisor.  vars is a function from names to integers.   *)
(* Every value the bounded inputs produce is far inside the signed 64-bit  *)
(* range, so the overflow behaviour of + - * is not exercised here.        *)
(***************************************************************************)
Abs(a) == IF a < 0 THEN 0 - a ELSE a

\* i64 division: the quotient rounded toward zero
TruncDiv(a, b) ==
    IF (a < 0) = (b < 0) THEN Abs(a) \div Abs(b) ELSE 0 - (Abs(a) \div Abs(b))

EvalOk(v) == [ok |-> TRUE, err |-> "", val |-> v]

EvalErr(msg) == [ok |-> FALSE, err |-> msg, val |-> 0]

\* the arithmetic with a division that yields 0 on a zero divisor
ApplyArith_ZeroQuotient(kind, a, b) ==
    CASE kind = "Add" -> EvalOk(a + b)
      [] kind = "Sub" -> EvalOk(a - b)
      [] kind = "Mul" -> EvalOk(a * b)
      [] kind = "Div" -> IF b = 0 THEN EvalOk(0) ELSE EvalOk(TruncDiv(a, b))

\* the arithmetic of one binary arm on two evaluated operands
ApplyArith(kind, a, b) ==
    CASE kind = "Add" -> EvalOk(a + b)
      [] kind = "Sub" -> EvalOk(a - b)
      [] kind = "Mul" -> EvalOk(a * b)
      [] kind = "Div" -> IF b = 0 THEN EvalErr("attempt to divide by zero")
                         ELSE EvalOk(TruncDiv(a, b))

RECURSIVE evaluate_expr(_, _)
evaluate_expr(expr, vars) ==
    CASE expr.kind = "Number" -> EvalOk(expr.n)
      [] expr.kind = "Variable" ->
            IF expr.name \in DOMAIN vars THEN EvalOk(vars[expr.name])
            ELSE EvalErr("Undefined Variable;")
      [] expr.kind \in BinaryKinds ->
            LET l == evaluate_expr(expr.left, vars)
            IN  IF ~l.ok THEN l
                ELSE LET r == evaluate_expr(expr.right, vars)
                     IN  IF ~r.ok THEN r ELSE ApplyArith(expr.kind, l.val, r.val)

(***************************************************************************)
(* The regexes of parse_program, searched unanchored, leftmost match       *)
(* first.  Every quantifier is greedy; where a shorter repetition could    *)
(* let the rest match, the backtracking is spelled out.                    *)
(***************************************************************************)
NoMatch == [matched |-> FALSE, g1 |-> <<>>, g2 |-> <<>>]

Match(g1, g2) == [matched |-> TRUE, g1 |-> g1, g2 |-> g2]

\* re_decl, var\s+(\w+)\s*=\s*(\d+), tried at position i
DeclAt(s, i) ==
    IF i + 2 <= Len(s) /\ SubSeq(s, i, i + 2) = <<"v", "a", "r">>
    THEN LET k == RunEnd(s, i + 3, Whitespace)
             m == RunEnd(s, k, WordChars)
             n == RunEnd(s, m, Whitespace)
             p == RunEnd(s, n + 1, Whitespace)
             q == RunEnd(s, p, Digits)
         IN  IF k > i + 3 /\ m > k /\ n <= Len(s) /\ s[n] = "=" /\ q > p
             THEN Match(SubSeq(s, k, m - 1), SubSeq(s, p, q - 1))
             ELSE NoMatch
    ELSE NoMatch

\* re_stmt, (\w+)\s*=\s*(\d+|[\w\s\+\-\*/\(\)]), tried at position i.  Group 2
\* is a run of digits or ONE character of the class; when the character after
\* the white space is neither, \s* gives its last character back to group 2.
StmtAt(s, i) ==
    LET m == RunEnd(s, i, WordChars)
        n == RunEnd(s, m, Whitespace)
        p == RunEnd(s, n + 1, Whitespace)
    IN  IF m > i /\ n <= Len(s) /\ s[n] = "="
        THEN IF p <= Len(s) /\ s[p] \in Digits
             THEN Match(SubSeq(s, i, m - 1), SubSeq(s, p, RunEnd(s, p, Digits) - 1))
             ELSE IF p <= Len(s) /\ s[p] \in StmtClass
             THEN Match(SubSeq(s, i, m - 1), <<s[p]>>)
             ELSE IF p > n + 1
             THEN Match(SubSeq(s, i, m - 1), <<s[p - 1]>>)
             ELSE NoMatch
        ELSE NoMatch

\* Regex::captures: the match at the leftmost position that has one
RECURSIVE DeclFrom(_, _)
DeclFrom(s, i) ==
    IF i > Len(s) THEN NoMatch
    ELSE IF DeclAt(s, i).matched THEN DeclAt(s, i)
    ELSE DeclFrom(s, i + 1)

RECURSIVE StmtFrom(_, _)
StmtFrom(s, i) ==
    IF i > Len(s) THEN NoMatch
    ELSE IF StmtAt(s, i).matched THEN StmtAt(s, i)
    ELSE StmtFrom(s, i + 1)

re_decl(line) == DeclFrom(line, 1)

re_stmt(line) == StmtFrom(line, 1)

(***************************************************************************)
(* struct Program, enum Stmt and parse_program.                            *)
(***************************************************************************)
EmptyMap == [k \in {} |-> 0]

\* entry(k).or_insert(v) in place of insert: an entry that exists is kept
Insert_IfAbsent(m, k, v) == [x \in (DOMAIN m) \cup {k} |-> IF x \in DOMAIN m THEN m[x] ELSE v]

\* HashMap::insert
Insert(m, k, v) == [x \in (DOMAIN m) \cup {k} |-> IF x = k THEN v ELSE m[x]]

Assignment(name, e) == [kind |-> "Assignment", name |-> name, expr |-> e]

Declaration(name, v) == [kind |-> "Declaration", name |-> name, expr |-> Number(v)]

Expression(e) == [kind |-> "Expression", name |-> <<>>, expr |-> e]

EmptyProgram == [variables |-> EmptyMap, statements |-> <<>>, err |-> ""]

\* the Declaration arm of the loop of parse_program
DeclareLine(p, caps) ==
    LET value == ParseI64(caps.g2)
    IN  IF ~value.ok THEN [p EXCEPT !.err = "ParseIntError"]
        ELSE [p EXCEPT !.variables = Insert(p.variables, caps.g1, value.val),
                       !.statements = Append(p.statements, Declaration(caps.g1, value.val))]

\* the Assignment arm
AssignLine(p, caps) ==
    LET value_exp == parse_expression(caps.g2)
    IN  IF ~value_exp.ok THEN [p EXCEPT !.err = value_exp.err]
        ELSE [p EXCEPT !.statements = Append(p.statements, Assignment(caps.g1, value_exp.tree))]

\* the fallback arm
ExpressionLine(p, line) ==
    LET exp == parse_expression(line)
    IN  IF ~exp.ok THEN [p EXCEPT !.err = exp.err]
        ELSE [p EXCEPT !.statements = Append(p.statements, Expression(exp.tree))]

\* one iteration of `for line in input.lines()`
ParseLine(p, line) ==
    IF p.err # "" THEN p
    ELSE IF re_decl(line).matched THEN DeclareLine(p, re_decl(line))
    ELSE IF re_stmt(line).matched THEN AssignLine(p, re_stmt(line))
    ELSE ExpressionLine(p, line)

RECURSIVE ParseLines(_, _, _)
ParseLines(p, ls, i) ==
    IF i > Len(ls) THEN p ELSE ParseLines(ParseLine(p, ls[i]), ls, i + 1)

parse_program(ls) == ParseLines(EmptyProgram, ls, 1)

(***************************************************************************)
(* State.  input, env, phase, parsed and value are one call of             *)
(* parse_expression followed by one call of evaluate_expr; lines, pc,      *)
(* program, ip, outputs and panic are one run of main on a program text.   *)
(***************************************************************************)
VARIABLES input, env, phase, parsed, value,
          lines, pc, program, ip, outputs, panic

exprVars == <<input, env, phase, parsed, value>>

progVars == <<lines, pc, program, ip, outputs, panic>>

vars == <<input, env, phase, parsed, value, lines, pc, program, ip, outputs, panic>>

(***************************************************************************)
(* The inputs.                                                             *)
(***************************************************************************)
\* a run of twenty nines: a digit run above i64::MAX
BigLit == [i \in 1..20 |-> "9"]

\* i64::MAX + 1
OverLit == I64MinDigits

ExprAlphabet == {"0", "2", "3", "+", "-", "*", "/", "(", ")", " "}

ShortTexts == UNION {[1..n -> ExprAlphabet] : n \in 0..MaxLen}

Ex_3p4p6 == <<"3", " ", "+", " ", "4", " ", "+", " ", "6">>

Ex_Main == <<"3", " ", "+", " ", "(", "4", " ", "*", " ", "2", ")", " ", "/",
             " ", "(", "1", " ", "-", " ", "5", ")">>

Ex_10m2m3 == <<"1", "0", " ", "-", " ", "2", " ", "-", " ", "3">>

Ex_2p3t4 == <<"2", " ", "+", " ", "3", " ", "*", " ", "4">>

Ex_4d0 == <<"4", " ", "/", " ", "0">>

Ex_Trunc == <<"(", "2", "-", "9", ")", "/", "2">>

Ex_xp1 == <<"x", " ", "+", " ", "1">>

ExampleTexts ==
    { Ex_3p4p6, Ex_Main, Ex_10m2m3, Ex_2p3t4, Ex_4d0, Ex_Trunc, Ex_xp1,
      BigLit, OverLit,
      BigLit \o <<" ", "+", " ", "1">>,
      BigLit \o <<" ", "/", " ", "0">>,
      <<"4", " ", "/", " ">> \o BigLit,
      <<"2", "*">> \o BigLit \o <<"-", "3">>,
      <<"0", "0", "7", "+", "1">> }

ExprTexts == ShortTexts \cup ExampleTexts

\* the mappings evaluate_expr is called with
Envs == {EmptyMap, Insert(EmptyMap, BigLit, 0), Insert(EmptyMap, BigLit, 5)}

L_var_x_5 == <<"v", "a", "r", " ", "x", " ", "=", " ", "5">>

L_x_7 == <<"x", " ", "=", " ", "7">>

L_var_x_9 == <<"v", "a", "r", " ", "x", " ", "=", " ", "9">>

L_x_plus_1 == <<"x", " ", "+", " ", "1">>

L_x_1_plus_2 == <<"x", " ", "=", " ", "1", " ", "+", " ", "2">>

L_3_plus_4 == <<"3", " ", "+", " ", "4">>

L_x_paren == <<"x", " ", "=", " ", "(", "1", " ", "+", " ", "2", ")">>

L_4_div_0 == <<"4", " ", "/", " ", "0">>

L_var_big_5 == <<"v", "a", "r", " ">> \o BigLit \o <<" ", "=", " ", "5">>

L_x_big == <<"x", " ", "=", " ">> \o BigLit

L_big_7 == BigLit \o <<" ", "=", " ", "7">>

L_big_plus_1 == BigLit \o <<" ", "+", " ", "1">>

LineTexts ==
    { L_var_x_5, L_x_7, L_var_x_9, L_x_plus_1, L_x_1_plus_2, L_3_plus_4,
      L_x_paren, L_4_div_0, L_var_big_5, L_x_big, L_big_7, L_big_plus_1 }

Programs == UNION {[1..n -> LineTexts] : n \in 0..MaxLines}

(***************************************************************************)
(* parse_expression, then evaluate_expr, on one text.                      *)
(***************************************************************************)
NoValue == [ok |-> FALSE, err |-> "", val |-> 0]

NoParse == [ok |-> FALSE, err |-> "", tree |-> NoExpr]

ProgIdle ==
    /\ lines = <<>>
    /\ pc = "idle"
    /\ program = EmptyProgram
    /\ ip = 1
    /\ outputs = <<>>
    /\ panic = ""

ExprIdle ==
    /\ input = <<>>
    /\ env = EmptyMap
    /\ phase = "idle"
    /\ parsed = NoParse
    /\ value = NoValue

InitExpr ==
    /\ input \in ExprTexts
    /\ env = EmptyMap
    /\ phase = "ready"
    /\ parsed = NoParse
    /\ value = NoValue
    /\ ProgIdle

\* the call parse_expression(input); a panic ends the process
ParseExpr ==
    /\ phase = "ready"
    /\ parsed' = parse_expression(input)
    /\ phase' = "parsed"
    /\ UNCHANGED <<input, env, value>>
    /\ UNCHANGED progVars

\* the call evaluate_expr(&expr, &vars) on the tree returned
EvalExpr ==
    /\ phase = "parsed"
    /\ parsed.ok
    /\ \E m \in Envs :
          /\ env' = m
          /\ value' = evaluate_expr(parsed.tree, m)
    /\ phase' = "evaluated"
    /\ UNCHANGED <<input, parsed>>
    /\ UNCHANGED progVars

NextExpr == ParseExpr \/ EvalExpr

SpecExpr == InitExpr /\ [][NextExpr]_vars

(***************************************************************************)
(* main: parse_program, then the loop over program.statements.             *)
(***************************************************************************)
Init ==
    /\ lines \in Programs
    /\ pc = "start"
    /\ program = EmptyProgram
    /\ ip = 1
    /\ outputs = <<>>
    /\ panic = ""
    /\ ExprIdle

\* let mut program = parse_program(js_code)
ParseProgram ==
    /\ pc = "start"
    /\ LET p == parse_program(lines)
       IN  /\ program' = p
           /\ panic' = p.err
           /\ pc' = IF p.err # "" THEN "panicked"
                    ELSE IF p.statements = <<>> THEN "done" ELSE "exec"
    /\ UNCHANGED <<lines, ip, outputs>>
    /\ UNCHANGED exprVars

Output(kind, name, v) == [kind |-> kind, name |-> name, value |-> v]

\* the position after one statement
Advance ==
    /\ ip' = ip + 1
    /\ pc' = IF ip + 1 > Len(program.statements) THEN "done" ELSE "exec"

\* Stmt::Assignment(var, expr)
ExecAssignment ==
    /\ pc = "exec"
    /\ program.statements[ip].kind = "Assignment"
    /\ LET stmt   == program.statements[ip]
           result == evaluate_expr(stmt.expr, program.variables)
       IN  IF result.ok
           THEN /\ program' = [program EXCEPT
                                 !.variables = Insert(program.variables, stmt.name, result.val)]
                /\ outputs' = Append(outputs, Output("Assignment", stmt.name, result.val))
                /\ panic' = panic
                /\ Advance
           ELSE /\ panic' = result.err
                /\ pc' = "panicked"
                /\ UNCHANGED <<program, outputs, ip>>
    /\ UNCHANGED lines
    /\ UNCHANGED exprVars

\* Stmt::Declaration(decl)
ExecDeclaration ==
    /\ pc = "exec"
    /\ program.statements[ip].kind = "Declaration"
    /\ LET decl == program.statements[ip]
       IN  outputs' = Append(outputs,
                             Output("Declaration", decl.name, program.variables[decl.name]))
    /\ Advance
    /\ UNCHANGED <<lines, program, panic>>
    /\ UNCHANGED exprVars

\* Stmt::Expression(expr)
ExecExpression ==
    /\ pc = "exec"
    /\ program.statements[ip].kind = "Expression"
    /\ LET result == evaluate_expr(program.statements[ip].expr, program.variables)
       IN  IF result.ok
           THEN /\ outputs' = Append(outputs, Output("Expression", <<>>, result.val))
                /\ panic' = panic
                /\ Advance
           ELSE /\ panic' = result.err
                /\ pc' = "panicked"
                /\ UNCHANGED <<outputs, ip>>
    /\ UNCHANGED <<lines, program>>
    /\ UNCHANGED exprVars

Next == ParseProgram \/ ExecAssignment \/ ExecDeclaration \/ ExecExpression

Spec == Init /\ [][Next]_vars

(***************************************************************************)
(* Vocabulary of the properties: token classes, balanced parentheses, and  *)
(* the infix grammar                                                       *)
(*     expr   ::= term { addop term }      addop ::= + or -                *)
(*     term   ::= factor { mulop factor }  mulop ::= * or /                *)
(*     factor ::= literal, or an expr between parentheses                  *)
(* read by recursive descent, with the arithmetic done on the literals'    *)
(* decimal values.  None of it uses the parser or the evaluator above.     *)
(***************************************************************************)
IsOperand(tok) == tok # <<>> /\ tok[1] \in Digits

IsOperator(tok) == tok \in {<<"+">>, <<"-">>, <<"*">>, <<"/">>}

Depth(t, i) ==
    Cardinality({j \in 1..i : t[j] = <<"(">>}) - Cardinality({j \in 1..i : t[j] = <<")">>})

\* every parenthesis of t has its partner
Balanced(t) == (\A i \in 1..Len(t) : Depth(t, i) >= 0) /\ Depth(t, Len(t)) = 0

RefFail == [ok |-> FALSE, pos |-> 0, tree |-> [k |-> "none"]]

RefOk(pos, tree) == [ok |-> TRUE, pos |-> pos, tree |-> tree]

RECURSIVE RefExprAt(_, _), RefExprRest(_, _, _), RefTermAt(_, _), RefTermRest(_, _, _), RefFactorAt(_, _)
RefFactorAt(t, i) ==
    IF i > Len(t) THEN RefFail
    ELSE IF IsOperand(t[i]) THEN RefOk(i + 1, [k |-> "lit", tok |-> t[i]])
    ELSE IF t[i] = <<"(">>
         THEN LET e == RefExprAt(t, i + 1)
              IN  IF e.ok /\ e.pos <= Len(t) /\ t[e.pos] = <<")">>
                  THEN RefOk(e.pos + 1, e.tree) ELSE RefFail
    ELSE RefFail

RefTermRest(t, i, acc) ==
    IF i <= Len(t) /\ t[i] \in {<<"*">>, <<"/">>}
    THEN LET f == RefFactorAt(t, i + 1)
         IN  IF f.ok THEN RefTermRest(t, f.pos, [k |-> t[i][1], l |-> acc, r |-> f.tree])
             ELSE RefFail
    ELSE RefOk(i, acc)

RefTermAt(t, i) ==
    LET f == RefFactorAt(t, i) IN IF f.ok THEN RefTermRest(t, f.pos, f.tree) ELSE RefFail

RefExprRest(t, i, acc) ==
    IF i <= Len(t) /\ t[i] \in {<<"+">>, <<"-">>}
    THEN LET f == RefTermAt(t, i + 1)
         IN  IF f.ok THEN RefExprRest(t, f.pos, [k |-> t[i][1], l |-> acc, r |-> f.tree])
             ELSE RefFail
    ELSE RefOk(i, acc)

RefExprAt(t, i) ==
    LET f == RefTermAt(t, i) IN IF f.ok THEN RefExprRest(t, f.pos, f.tree) ELSE RefFail

\* t is a well-formed infix expression
Grammatical(t) == RefExprAt(t, 1).ok /\ RefExprAt(t, 1).pos = Len(t) + 1

\* the quotient rounded toward zero, from the floor quotient
RefQuot(a, b) ==
    LET f == a \div b IN IF f * b = a \/ (a < 0) = (b < 0) THEN f ELSE f + 1

\* the value of a grammar tree; def is FALSE where a divisor is zero
RECURSIVE RefEval(_)
RefEval(tr) ==
    IF tr.k = "lit" THEN [def |-> TRUE, val |-> DecVal(tr.tok)]
    ELSE LET a == RefEval(tr.l)
             b == RefEval(tr.r)
         IN  IF ~a.def \/ ~b.def THEN [def |-> FALSE, val |-> 0]
             ELSE CASE tr.k = "+" -> [def |-> TRUE, val |-> a.val + b.val]
                    [] tr.k = "-" -> [def |-> TRUE, val |-> a.val - b.val]
                    [] tr.k = "*" -> [def |-> TRUE, val |-> a.val * b.val]
                    [] tr.k = "/" -> IF b.val = 0 THEN [def |-> FALSE, val |-> 0]
                                     ELSE [def |-> TRUE, val |-> RefQuot(a.val, b.val)]

RefValue(t) == RefEval(RefExprAt(t, 1).tree)

\* every literal of t is short enough for its value to be computed here
SmallLiterals(t) == \A i \in 1..Len(t) : IsOperand(t[i]) => Len(t[i]) <= 9

RECURSIVE HasVariableLeaf(_)
HasVariableLeaf(e) ==
    \/ e.kind = "Variable"
    \/ e.kind \in BinaryKinds /\ (HasVariableLeaf(e.left) \/ HasVariableLeaf(e.right))

RECURSIVE VariablesDefined(_, _)
VariablesDefined(e, m) ==
    CASE e.kind = "Variable" -> e.name \in DOMAIN m
      [] e.kind \in BinaryKinds -> VariablesDefined(e.left, m) /\ VariablesDefined(e.right, m)
      [] OTHER -> TRUE

\* e has a Div node whose right child evaluates to zero under m
RECURSIVE DivisorZero(_, _)
DivisorZero(e, m) ==
    /\ e.kind \in BinaryKinds
    /\ \/ e.kind = "Div" /\ evaluate_expr(e.right, m) = EvalOk(0)
       \/ DivisorZero(e.left, m)
       \/ DivisorZero(e.right, m)

ParseReturned == phase \in {"parsed", "evaluated"}

(***************************************************************************)
(* C1.  For every well-formed infix text of non-negative integer literals  *)
(* with no division by zero, evaluate_expr(parse_expression(text)) is the  *)
(* value of standard arithmetic: * and / bind tighter than + and -, equal  *)
(* precedence groups left to right, division truncates toward zero.  For a *)
(* text with a literal too long to compute with here, the statement is     *)
(* only that a division-free text has a value.                             *)
(***************************************************************************)
C1_ParseThenEvaluate ==
    LET t == Tokenize(input)
    IN  (ParseReturned /\ Grammatical(t)) =>
          /\ parsed.ok
          /\ phase = "evaluated" =>
                IF SmallLiterals(t)
                THEN RefValue(t).def => (value.ok /\ value.val = RefValue(t).val)
                ELSE (\A i \in 1..Len(t) : t[i] # <<"/">>) => value.ok

\* the same, for the texts whose literals all fit the signed 64-bit range
C1_WithinI64 ==
    LET t == Tokenize(input)
    IN  (ParseReturned /\ Grammatical(t)
            /\ \A i \in 1..Len(t) : IsOperand(t[i]) => ParseI64(t[i]).ok) =>
          /\ parsed.ok
          /\ (phase = "evaluated" /\ RefValue(t).def) =>
                (value.ok /\ value.val = RefValue(t).val)

(***************************************************************************)
(* C2.  parse_expression of "a op1 b op2 c" returns op2(op1(a,b),c) when   *)
(* precedence(op1) >= precedence(op2) and op1(a,op2(b,c)) otherwise, with  *)
(* precedence 1 for + and -, 2 for * and /; "10 - 2 - 3" evaluates to 5    *)
(* and "2 + 3 * 4" to 14.                                                  *)
(***************************************************************************)
ClaimedPrecedence(op) == IF op \in {<<"+">>, <<"-">>} THEN 1 ELSE 2

NodeKind(op) ==
    CASE op = <<"+">> -> "Add" [] op = <<"-">> -> "Sub"
      [] op = <<"*">> -> "Mul" [] op = <<"/">> -> "Div"

\* e is the leaf of operand token tok
LeafOf(e, tok) ==
    \/ e.kind = "Number" /\ e.n = DecVal(tok)
    \/ e.kind = "Variable" /\ e.name = tok

IsThreeOperands(t) ==
    /\ Len(t) = 5
    /\ IsOperand(t[1]) /\ IsOperator(t[2]) /\ IsOperand(t[3])
    /\ IsOperator(t[4]) /\ IsOperand(t[5])

C2_PrecedenceAndAssociativity ==
    LET t == Tokenize(input)
        e == parsed.tree
    IN  /\ (ParseReturned /\ IsThreeOperands(t)) =>
             /\ parsed.ok
             /\ IF ClaimedPrecedence(t[2]) >= ClaimedPrecedence(t[4])
                THEN /\ e.kind = NodeKind(t[4])
                     /\ e.left.kind = NodeKind(t[2])
                     /\ LeafOf(e.left.left, t[1])
                     /\ LeafOf(e.left.right, t[3])
                     /\ LeafOf(e.right, t[5])
                ELSE /\ e.kind = NodeKind(t[2])
                     /\ LeafOf(e.left, t[1])
                     /\ e.right.kind = NodeKind(t[4])
                     /\ LeafOf(e.right.left, t[3])
                     /\ LeafOf(e.right.right, t[5])
        /\ (phase = "evaluated" /\ input = Ex_10m2m3) => value = EvalOk(5)
        /\ (phase = "evaluated" /\ input = Ex_2p3t4) => value = EvalOk(14)

C2_Witness ==
    /\ phase = "evaluated"
    /\ IsThreeOperands(Tokenize(input))
    /\ Tokenize(input)[2] = <<"-">>
    /\ Tokenize(input)[4] = <<"/">>
    /\ parsed.tree.kind = "Sub"

(***************************************************************************)
(* C3.  As claimed: a token sequence with an unmatched parenthesis makes   *)
(* parse_expression fail with "Mismatched parentheses" and no other error. *)
(***************************************************************************)
C3_AlwaysMismatched ==
    (ParseReturned /\ ~Balanced(Tokenize(input))) =>
        (~parsed.ok /\ parsed.err = "Mismatched parentheses")

(***************************************************************************)
(* C3, amended.  A token sequence with an unmatched parenthesis never      *)
(* yields a tree: parse_expression fails with "Mismatched parentheses", or *)
(* with "Invalid expression" when a reduction finds fewer than two         *)
(* operands first, which takes an operator in the input.                   *)
(***************************************************************************)
C3_UnmatchedAlwaysFails ==
    LET t == Tokenize(input)
    IN  (ParseReturned /\ ~Balanced(t)) =>
          /\ ~parsed.ok
          /\ parsed.tree = NoExpr
          /\ parsed.err \in {"Mismatched parentheses", "Invalid expression"}
          /\ (\A i \in 1..Len(t) : ~IsOperator(t[i])) => parsed.err = "Mismatched parentheses"

C3_Witness ==
    /\ phase = "parsed"
    /\ ~Balanced(Tokenize(input))
    /\ parsed.err = "Invalid expression"

(***************************************************************************)
(* C4.  A malformed token sequence (two operands adjacent, or an operator  *)
(* without an operand on one side) never yields an expression tree.        *)
(***************************************************************************)
AdjacentOperands(t) == \E i \in 1..(Len(t) - 1) : IsOperand(t[i]) /\ IsOperand(t[i + 1])

OperatorLacksOperand(t) ==
    \E i \in 1..Len(t) :
       /\ IsOperator(t[i])
       /\ \/ i = 1
          \/ i = Len(t)
          \/ ~(IsOperand(t[i - 1]) \/ t[i - 1] = <<")">>)
          \/ ~(IsOperand(t[i + 1]) \/ t[i + 1] = <<"(">>)

C4_MalformedRejected ==
    LET t == Tokenize(input)
    IN  (ParseReturned /\ (AdjacentOperands(t) \/ OperatorLacksOperand(t))) => ~parsed.ok

\* its last clause alone: a tree is returned only for a well-formed infix input
C4_TreeOnlyIfWellFormed ==
    (ParseReturned /\ parsed.ok) => Grammatical(Tokenize(input))

C9_DigitsAreNumbers ==
    (ParseReturned /\ parsed.ok) => ~HasVariableLeaf(parsed.tree)

(***************************************************************************)
(* Vocabulary of the properties about whole programs.                      *)
(***************************************************************************)
NameX == <<"x">>

\* position of the first "=" of a line, 0 when it has none
FirstEquals(line) ==
    IF \E i \in 1..Len(line) : line[i] = "="
    THEN CHOOSE i \in 1..Len(line) : line[i] = "=" /\ \A j \in 1..(i - 1) : line[j] # "="
    ELSE 0

StartsWithVar(line) == Len(line) >= 4 /\ SubSeq(line, 1, 4) = <<"v", "a", "r", " ">>

\* the line reads <name> = <expression text> and is no declaration
IsAssignmentForm(line) == FirstEquals(line) > 1 /\ ~StartsWithVar(line)

LeftOfEquals(line) == Trim(SubSeq(line, 1, FirstEquals(line) - 1))

RightOfEquals(line) == SubSeq(line, FirstEquals(line) + 1, Len(line))

\* the mapping after statements 1..k of the execution pass, begun in m0: an
\* Assignment sets its name to the value of its expression in the mapping just
\* before it, creating the entry if absent; nothing else changes an entry
RECURSIVE AfterStatements(_, _, _)
AfterStatements(stmts, k, m0) ==
    IF k = 0 THEN m0
    ELSE LET m == AfterStatements(stmts, k - 1, m0)
             s == stmts[k]
         IN  IF s.kind = "Assignment"
             THEN [n \in (DOMAIN m) \cup {s.name} |->
                      IF n = s.name THEN evaluate_expr(s.expr, m).val ELSE m[n]]
             ELSE m

\* the mapping after statements 1..k when every Declaration and Assignment
\* writes its name where it stands in the source
RECURSIVE InSourceOrder(_, _)
InSourceOrder(stmts, k) ==
    IF k = 0 THEN EmptyMap
    ELSE LET m == InSourceOrder(stmts, k - 1)
             s == stmts[k]
         IN  IF s.kind \in {"Assignment", "Declaration"}
             THEN [n \in (DOMAIN m) \cup {s.name} |->
                      IF n = s.name THEN evaluate_expr(s.expr, m).val ELSE m[n]]
             ELSE m

(***************************************************************************)
(* C5.  In a program whose first line is `var x = <n>` and whose other     *)
(* lines are bare expressions, every line `x + 1` is parsed into           *)
(* Add(Variable(x), Number(1)) and evaluates to n + 1; the program neither *)
(* fails to parse nor fails to run.                                        *)
(***************************************************************************)
C5_DeclaredVariableIsRead ==
    (/\ pc # "start"
     /\ Len(lines) >= 2
     /\ lines[1] \in {L_var_x_5, L_var_x_9}
     /\ \A j \in 2..Len(lines) : lines[j] \in {L_x_plus_1, L_3_plus_4}
     /\ \E j \in 2..Len(lines) : lines[j] = L_x_plus_1) =>
        /\ pc # "panicked"
        /\ Len(program.statements) = Len(lines)
        /\ \A j \in 2..Len(lines) :
              lines[j] = L_x_plus_1 =>
                 /\ program.statements[j] =
                       Expression(Binary("Add", Variable(NameX), Number(1)))
                 /\ pc = "done" => outputs[j].value = program.statements[1].expr.n + 1

(***************************************************************************)
(* C6.  For every line of the form <name> = <expression text> that is not  *)
(* a declaration, parse_program records Assignment(<name>, e) with e the   *)
(* tree parse_expression returns for the whole text after the "=".         *)
(***************************************************************************)
C6_WholeRightHandSide ==
    pc \in {"exec", "done"} =>
       \A i \in 1..Len(lines) :
          IsAssignmentForm(lines[i]) =>
             program.statements[i] =
                Assignment(LeftOfEquals(lines[i]), parse_expression(RightOfEquals(lines[i])).tree)

(***************************************************************************)
(* C8.  The execution pass applies the statements in source-line order to  *)
(* one mapping: statement k+1 is evaluated in the mapping left by          *)
(* statements 1..k; an Assignment sets its name to the value its           *)
(* expression has just before it and leaves every other entry alone; an    *)
(* Expression statement changes no entry.  Stated on every state of the    *)
(* pass: the mapping and the printed values are those of AfterStatements.  *)
(***************************************************************************)
C8_SequentialExecution ==
    pc \in {"exec", "done"} =>
       LET stmts == program.statements
           m0    == parse_program(lines).variables
       IN  /\ Len(stmts) = Len(lines)
           /\ \A i \in 1..Len(lines) : <<stmts[i]>> = parse_program(<<lines[i]>>).statements
           /\ ip \in 1..(Len(stmts) + 1)
           /\ (pc = "done") = (ip = Len(stmts) + 1)
           /\ program.variables = AfterStatements(stmts, ip - 1, m0)
           /\ Len(outputs) = ip - 1
           /\ \A k \in 1..(ip - 1) :
                 /\ outputs[k].kind = stmts[k].kind
                 /\ stmts[k].kind \in {"Assignment", "Expression"} =>
                       outputs[k].value =
                          evaluate_expr(stmts[k].expr, AfterStatements(stmts, k - 1, m0)).val

\* the third statement reads the entry the second one overwrote
C8_Witness ==
    /\ pc = "done"
    /\ lines = <<L_var_big_5, L_big_7, L_x_big>>
    /\ program.variables[NameX] = 7
    /\ program.variables[BigLit] = 7

(***************************************************************************)
(* C10.  After a complete pass the mapping holds, for every name, the      *)
(* value written by the last Declaration or Assignment of that name in     *)
(* source order, and a Declaration shows the value it declares, not one    *)
(* written by a later statement.                                           *)
(***************************************************************************)
C10_LastWriteInSourceOrder ==
    pc = "done" =>
       /\ program.variables = InSourceOrder(program.statements, Len(program.statements))
       /\ \A k \in 1..Len(program.statements) :
             program.statements[k].kind = "Declaration" =>
                outputs[k].value = program.statements[k].expr.n

=============================================================================
